---- MODULE Spec2Model ----
(***************************************************************************)
(* argon2themax: calibration of Argon2 cost options against a time budget  *)
(* (Measurement), selection of a measured timing for a budget (Selection)  *)
(* and the cached entry points getMaxOptions / getMaxOptionsWithStrategies.*)
(* The model follows src/src/index.ts lines 1-440, the current version of  *)
(* the module.                                                             *)
(***************************************************************************)
EXTENDS Integers, Sequences, FiniteSets, TLC

VARIABLES
    sels,          \* Selection: the LinearSelectionStrategy instances, by name
    cur,           \* Selection: the name of the instance the caller drives
    series,        \* Selection: the caller's TimingResult.timings last initialized
    out,           \* Selection: outcome of the caller's last call on the instance
    phase,         \* Selection: how often the caller has initialized the instance
    optionsCache,  \* the module-level optionsCache, by cache key
    calls,         \* the getMaxOptions / getMaxOptionsWithStrategies invocations
    defaults,      \* argon2lib.defaults: the cost options every run starts from
    limits,        \* argon2lib.limits: min and max of each cost option
    os             \* os.cpus().length and os.totalmem() (bytes) of the machine

\* fixed when the module is loaded
envvars == <<defaults, limits, os>>

\* the direct caller of a strategy instance
callervars == <<cur, series, out, phase>>

vars == <<sels, cur, series, out, phase, optionsCache, calls, defaults, limits, os>>

(***************************************************************************)
(* Bounds of the model.                                                    *)
(***************************************************************************)
\* longest series handed to initialize by a direct caller
MaxLen == 2
\* elapsed times of one measured hash are 1..MaxMs milliseconds
MaxMs == 3

MsSet == 1..MaxMs
\* computeTimeMs and hashCost values of the samples of a hand-made series
HandMs == {1, 2}
CostSet == {1, 2}
\* budgets a direct caller passes to select: 0 is below every sample
SelectBudgets == {0} \cup HandMs
\* the budget (maxMs) the callers of getMaxOptions ask for: a measured hash
\* can stay below it, take exactly it, or exceed it
Budgets == {2}
\* the invocations of getMaxOptions / getMaxOptionsWithStrategies
CallIds == DOMAIN calls

(***************************************************************************)
(* Options, Timing (index.ts 13-20, 63-67).                                *)
(***************************************************************************)
\* JavaScript undefined where an Options object is expected
NoOptions == [memoryCost |-> 0, timeCost |-> 0, parallelism |-> 0]

\* JavaScript undefined where a Timing is expected: id 0 is no sample
NoTiming == [id |-> 0, computeTimeMs |-> 0, hashCost |-> 0, options |-> NoOptions]

\* the options object of the samples of a hand-made series
HandOptions == [memoryCost |-> 1, timeCost |-> 1, parallelism |-> 1]

\* the machine of the getMaxOptions runs: one CPU, 4 KiB of memory, and an
\* Argon2 build with two memory costs and two time costs
InitEnv ==
    /\ defaults = [memoryCost |-> 1, timeCost |-> 1, parallelism |-> 1]
    /\ limits = [memoryCost  |-> [min |-> 1, max |-> 2],
                 timeCost    |-> [min |-> 1, max |-> 2],
                 parallelism |-> [min |-> 1, max |-> 2]]
    /\ os = [cpus |-> 1, totalmem |-> 4096]

\* a Timing; id is the position at which the sample was pushed on its series
Timing(id, ms, cost, opts) ==
    [id |-> id, computeTimeMs |-> ms, hashCost |-> cost, options |-> opts]

Range(s) == {s[i] : i \in 1..Len(s)}

Front(s) == SubSeq(s, 1, Len(s) - 1)

Last(s) == s[Len(s)]

(***************************************************************************)
(* lodash sortBy / orderBy (ascending, stable) and findLast as the         *)
(* Selection namespace uses them.                                          *)
(***************************************************************************)
\* a sorts strictly before b under the iteratee list `by`
KeyLess(by, a, b) ==
    IF by = "computeTimeMs"
    THEN a.computeTimeMs < b.computeTimeMs
    ELSE \/ a.hashCost < b.hashCost
         \/ a.hashCost = b.hashCost /\ a.computeTimeMs < b.computeTimeMs

RECURSIVE Insert(_, _, _)
\* x placed after every element that does not sort after it (stability)
Insert(by, s, x) ==
    IF s = <<>> THEN <<x>>
    ELSE IF KeyLess(by, x, Head(s)) THEN <<x>> \o s
    ELSE <<Head(s)>> \o Insert(by, Tail(s), x)

RECURSIVE Sorted(_, _)
Sorted(by, s) ==
    IF s = <<>> THEN <<>> ELSE Insert(by, Sorted(by, Front(s)), Last(s))

\* _.sortBy(timings, "computeTimeMs")
sortBy(timings) == Sorted("computeTimeMs", timings)

\* _.orderBy(timings, ["hashCost", "computeTimeMs"], ["asc", "asc"])
orderBy(timings) == Sorted("hashCost,computeTimeMs", timings)

\* a slip: the predicate dropped, the top-ranked timing taken whatever it took
findLastAny(sortedTimings, maxTimeMs) ==
    IF sortedTimings = <<>> THEN NoTiming ELSE Last(sortedTimings)

\* _.findLast(sortedTimings, t => t.computeTimeMs <= maxTimeMs)
findLast(sortedTimings, maxTimeMs) ==
    LET I == {i \in 1..Len(sortedTimings) :
                 sortedTimings[i].computeTimeMs <= maxTimeMs}
    IN  IF I = {} THEN NoTiming
        ELSE sortedTimings[CHOOSE i \in I : \A j \in I : j <= i]

(***************************************************************************)
(* Selection.LinearSelectionStrategy and its two subclasses.               *)
(***************************************************************************)
SelectionNames == {"maxcost", "closestmatch"}

\* a strategy instance as its constructor leaves it
NewSelection ==
    [sortedTimings |-> <<>>,
     timingsCache  |-> [b \in SelectBudgets \cup Budgets |-> NoTiming],
     fastestTiming |-> NoTiming,
     slowestTiming |-> NoTiming]

\* a slip: both strategies rank by cost
getSortedTimingsByCost(name, timings) == orderBy(timings)

\* MaxCostSelectionStrategy / ClosestMatchSelectionStrategy.getSortedTimings
getSortedTimings(name, timings) ==
    IF name = "maxcost" THEN orderBy(timings) ELSE sortBy(timings)

\* a slip: the extremes read off the cost-ranked list instead of the time-sorted one
FastestOfRanked(timings) == Head(orderBy(timings))

\* the fastestTiming assigned by initialize
FastestOf(timings) == Head(sortBy(timings))

\* a slip: _.head taken for the slowest too
SlowestOfHead(timings) == Head(sortBy(timings))

\* the slowestTiming assigned by initialize
SlowestOf(timings) == Last(sortBy(timings))

\* a slip: the argument checked after the ranked list was assigned
initializeSortsFirst(self, name, timings) ==
    IF Len(timings) = 0
    THEN [threw |-> TRUE, self |-> [self EXCEPT !.sortedTimings = <<>>]]
    ELSE [threw |-> FALSE,
          self  |-> [self EXCEPT
                       !.sortedTimings = getSortedTimings(name, timings),
                       !.fastestTiming = FastestOf(timings),
                       !.slowestTiming = SlowestOf(timings)]]

\* initialize(undefined), or initialize of a result without a timings array:
\* the first two tests of the guard. [threw, self]
initializeMissing(self, name) == [threw |-> TRUE, self |-> self]

\* initialize(timingResults): [threw, self]
initialize(self, name, timings) ==
    IF Len(timings) = 0
    THEN [threw |-> TRUE, self |-> self]
    ELSE [threw |-> FALSE,
          self  |-> [self EXCEPT
                       !.sortedTimings = getSortedTimings(name, timings),
                       !.fastestTiming = FastestOf(timings),
                       !.slowestTiming = SlowestOf(timings)]]

\* fastest()
fastest(self) == self.fastestTiming

\* slowest()
slowest(self) == self.slowestTiming

\* the timing select looks up: the memoized one, else the last that fits
Lookup(self, maxTimeMs) ==
    IF self.timingsCache[maxTimeMs] # NoTiming
    THEN self.timingsCache[maxTimeMs]
    ELSE findLast(self.sortedTimings, maxTimeMs)

\* the behaviour of the module's earlier version (index.ts 713-716): throw
NoneAvailableThrows(self, maxTimeMs) == [threw |-> TRUE, val |-> NoTiming]

\* what select does when nothing fits: [threw, val]
NoneAvailable(self, maxTimeMs) == [threw |-> FALSE, val |-> fastest(self)]

\* a slip: the answer memoized under every budget, not under its own
selectSharedMemo(self, maxTimeMs) ==
    LET timing == Lookup(self, maxTimeMs)
    IN  IF timing = NoTiming
        THEN [threw |-> NoneAvailable(self, maxTimeMs).threw,
              val   |-> NoneAvailable(self, maxTimeMs).val,
              self  |-> self]
        ELSE [threw |-> FALSE,
              val   |-> timing,
              self  |-> [self EXCEPT !.timingsCache =
                            [b \in DOMAIN @ |-> timing]]]

\* select(maxTimeMs): [threw, val, self]
select(self, maxTimeMs) ==
    LET timing == Lookup(self, maxTimeMs)
    IN  IF timing = NoTiming
        THEN [threw |-> NoneAvailable(self, maxTimeMs).threw,
              val   |-> NoneAvailable(self, maxTimeMs).val,
              self  |-> self]
        ELSE [threw |-> FALSE,
              val   |-> timing,
              self  |-> [self EXCEPT !.timingsCache[maxTimeMs] = timing]]

(***************************************************************************)
(* Measurement: TimingStrategyBase.run and the two timing strategies.      *)
(***************************************************************************)
TimingNames == {"maxmemory", "closestmatch"}

Min(a, b) == IF a < b THEN a ELSE b

Max(a, b) == IF a > b THEN a ELSE b

RECURSIVE FloorLog2(_)
\* Math.floor(Math.log2(n)) for n >= 1
FloorLog2(n) == IF n < 2 THEN 0 ELSE 1 + FloorLog2(n \div 2)

\* context.data before onBeforeStart
NoData ==
    [parallelism |-> 0, memoryCostMax |-> 0,
     isDone |-> FALSE, lastOvershot |-> FALSE]

\* a slip: the parallelism computed for context.data only, the starting
\* options left with the defaults' parallelism
onBeforeStartDataOnly(name, startingOptions) ==
    LET par == Max(Min(os.cpus * 2, limits.parallelism.max),
                   limits.parallelism.min)
    IN  [startingOptions |-> startingOptions,
         data |-> [parallelism |-> par,
                   memoryCostMax |->
                       Min(FloorLog2(os.totalmem \div 1024),
                           limits.memoryCost.max),
                   isDone |-> FALSE,
                   lastOvershot |-> FALSE]]

\* onBeforeStart: parallelism from the CPU count, memoryCostMax from the RAM
onBeforeStart(name, startingOptions) ==
    LET par == Max(Min(os.cpus * 2, limits.parallelism.max),
                   limits.parallelism.min)
    IN  [startingOptions |-> [startingOptions EXCEPT !.parallelism = par],
         data |-> [parallelism |-> par,
                   memoryCostMax |->
                       Min(FloorLog2(os.totalmem \div 1024),
                           limits.memoryCost.max),
                   isDone |-> FALSE,
                   lastOvershot |-> FALSE]]

\* a slip: memoryCost left at the ceiling when timeCost is raised
MaxMemoryMarchNextKeepsMemory(data, options) ==
    IF options.memoryCost < data.memoryCostMax
    THEN [ok |-> TRUE, data |-> data,
          options |-> [options EXCEPT !.memoryCost = @ + 1]]
    ELSE IF options.timeCost < limits.timeCost.max
    THEN [ok |-> TRUE, data |-> data,
          options |-> [options EXCEPT !.timeCost = @ + 1]]
    ELSE [ok |-> FALSE, data |-> data, options |-> options]

\* a slip: the two branches swapped, time raised before memory
MaxMemoryMarchNextTimeFirst(data, options) ==
    IF options.timeCost < limits.timeCost.max
    THEN [ok |-> TRUE, data |-> data,
          options |-> [options EXCEPT !.timeCost = @ + 1]]
    ELSE IF options.memoryCost < data.memoryCostMax
    THEN [ok |-> TRUE, data |-> data,
          options |-> [options EXCEPT !.memoryCost = @ + 1,
                                      !.timeCost = defaults.timeCost]]
    ELSE [ok |-> FALSE, data |-> data, options |-> options]

\* a slip: memory raised while it is at most the ceiling, not below it
MaxMemoryMarchNextOffByOne(data, options) ==
    IF options.memoryCost <= data.memoryCostMax
    THEN [ok |-> TRUE, data |-> data,
          options |-> [options EXCEPT !.memoryCost = @ + 1]]
    ELSE IF options.timeCost < limits.timeCost.max
    THEN [ok |-> TRUE, data |-> data,
          options |-> [options EXCEPT !.memoryCost = defaults.memoryCost,
                                      !.timeCost = @ + 1]]
    ELSE [ok |-> FALSE, data |-> data, options |-> options]

\* MaxMemoryMarchStrategy.applyNextOptions: [ok, options, data]
MaxMemoryMarchNext(data, options) ==
    IF options.memoryCost < data.memoryCostMax
    THEN [ok |-> TRUE, data |-> data,
          options |-> [options EXCEPT !.memoryCost = @ + 1]]
    ELSE IF options.timeCost < limits.timeCost.max
    THEN [ok |-> TRUE, data |-> data,
          options |-> [options EXCEPT !.memoryCost = defaults.memoryCost,
                                      !.timeCost = @ + 1]]
    ELSE [ok |-> FALSE, data |-> data, options |-> options]

\* a slip: after an overshoot timeCost is reset but memoryCost not raised
ClosestMatchNextSameLevel(data, startingOptions, maxTimeMs, lastTiming, options) ==
    IF lastTiming.computeTimeMs >= maxTimeMs
    THEN IF data.lastOvershot
         THEN [ok |-> FALSE, options |-> options,
               data |-> [data EXCEPT !.isDone = TRUE]]
         ELSE IF options.memoryCost < limits.memoryCost.max
         THEN [ok |-> TRUE,
               options |-> [options EXCEPT
                              !.timeCost = startingOptions.timeCost],
               data |-> [data EXCEPT !.lastOvershot = TRUE]]
         ELSE [ok |-> FALSE, options |-> options,
               data |-> [data EXCEPT !.isDone = TRUE]]
    ELSE IF options.timeCost < limits.timeCost.max
         THEN [ok |-> TRUE,
               options |-> [options EXCEPT !.timeCost = @ + 1],
               data |-> [data EXCEPT !.lastOvershot = FALSE]]
         ELSE [ok |-> FALSE, options |-> options,
               data |-> [data EXCEPT !.lastOvershot = FALSE,
                                     !.isDone = TRUE]]

\* a slip: only a sample over the budget counts, one equal to it does not
ClosestMatchNextStrict(data, startingOptions, maxTimeMs, lastTiming, options) ==
    IF lastTiming.computeTimeMs > maxTimeMs
    THEN IF data.lastOvershot
         THEN [ok |-> FALSE, options |-> options,
               data |-> [data EXCEPT !.isDone = TRUE]]
         ELSE IF options.memoryCost < limits.memoryCost.max
         THEN [ok |-> TRUE,
               options |-> [options EXCEPT
                              !.timeCost = startingOptions.timeCost,
                              !.memoryCost = @ + 1],
               data |-> [data EXCEPT !.lastOvershot = TRUE]]
         ELSE [ok |-> FALSE, options |-> options,
               data |-> [data EXCEPT !.isDone = TRUE]]
    ELSE IF options.timeCost < limits.timeCost.max
         THEN [ok |-> TRUE,
               options |-> [options EXCEPT !.timeCost = @ + 1],
               data |-> [data EXCEPT !.lastOvershot = FALSE]]
         ELSE [ok |-> FALSE, options |-> options,
               data |-> [data EXCEPT !.lastOvershot = FALSE,
                                     !.isDone = TRUE]]

\* a slip: lastOvershot never consulted, every overshoot tries the next level
ClosestMatchNextForgetsOvershoot(data, startingOptions, maxTimeMs, lastTiming, options) ==
    IF lastTiming.computeTimeMs >= maxTimeMs
    THEN IF options.memoryCost < limits.memoryCost.max
         THEN [ok |-> TRUE,
               options |-> [options EXCEPT
                              !.timeCost = startingOptions.timeCost,
                              !.memoryCost = @ + 1],
               data |-> [data EXCEPT !.lastOvershot = TRUE]]
         ELSE [ok |-> FALSE, options |-> options,
               data |-> [data EXCEPT !.isDone = TRUE]]
    ELSE IF options.timeCost < limits.timeCost.max
         THEN [ok |-> TRUE,
               options |-> [options EXCEPT !.timeCost = @ + 1],
               data |-> [data EXCEPT !.lastOvershot = FALSE]]
         ELSE [ok |-> FALSE, options |-> options,
               data |-> [data EXCEPT !.lastOvershot = FALSE,
                                     !.isDone = TRUE]]

\* a slip: the first sample that reaches the budget ends the search
ClosestMatchNextStopsAtFirst(data, startingOptions, maxTimeMs, lastTiming, options) ==
    IF lastTiming.computeTimeMs >= maxTimeMs
    THEN [ok |-> FALSE, options |-> options,
          data |-> [data EXCEPT !.isDone = TRUE]]
    ELSE IF options.timeCost < limits.timeCost.max
         THEN [ok |-> TRUE,
               options |-> [options EXCEPT !.timeCost = @ + 1],
               data |-> [data EXCEPT !.lastOvershot = FALSE]]
         ELSE [ok |-> FALSE, options |-> options,
               data |-> [data EXCEPT !.lastOvershot = FALSE,
                                     !.isDone = TRUE]]

\* a slip: the next memory level tried at the timeCost that overshot
ClosestMatchNextKeepsTime(data, startingOptions, maxTimeMs, lastTiming, options) ==
    IF lastTiming.computeTimeMs >= maxTimeMs
    THEN IF data.lastOvershot
         THEN [ok |-> FALSE, options |-> options,
               data |-> [data EXCEPT !.isDone = TRUE]]
         ELSE IF options.memoryCost < limits.memoryCost.max
         THEN [ok |-> TRUE,
               options |-> [options EXCEPT !.memoryCost = @ + 1],
               data |-> [data EXCEPT !.lastOvershot = TRUE]]
         ELSE [ok |-> FALSE, options |-> options,
               data |-> [data EXCEPT !.isDone = TRUE]]
    ELSE IF options.timeCost < limits.timeCost.max
         THEN [ok |-> TRUE,
               options |-> [options EXCEPT !.timeCost = @ + 1],
               data |-> [data EXCEPT !.lastOvershot = FALSE]]
         ELSE [ok |-> FALSE, options |-> options,
               data |-> [data EXCEPT !.lastOvershot = FALSE,
                                     !.isDone = TRUE]]

\* ClosestMatchStrategy.applyNextOptions: [ok, options, data]
ClosestMatchNext(data, startingOptions, maxTimeMs, lastTiming, options) ==
    IF lastTiming.computeTimeMs >= maxTimeMs
    THEN IF data.lastOvershot
         THEN [ok |-> FALSE, options |-> options,
               data |-> [data EXCEPT !.isDone = TRUE]]
         ELSE IF options.memoryCost < limits.memoryCost.max
         THEN [ok |-> TRUE,
               options |-> [options EXCEPT
                              !.timeCost = startingOptions.timeCost,
                              !.memoryCost = @ + 1],
               data |-> [data EXCEPT !.lastOvershot = TRUE]]
         ELSE [ok |-> FALSE, options |-> options,
               data |-> [data EXCEPT !.isDone = TRUE]]
    ELSE IF options.timeCost < limits.timeCost.max
         THEN [ok |-> TRUE,
               options |-> [options EXCEPT !.timeCost = @ + 1],
               data |-> [data EXCEPT !.lastOvershot = FALSE]]
         ELSE [ok |-> FALSE, options |-> options,
               data |-> [data EXCEPT !.lastOvershot = FALSE,
                                     !.isDone = TRUE]]

\* applyNextOptions of the strategy called `name`
applyNextOptions(name, data, startingOptions, maxTimeMs, lastTiming, options) ==
    IF name = "maxmemory"
    THEN MaxMemoryMarchNext(data, options)
    ELSE ClosestMatchNext(data, startingOptions, maxTimeMs, lastTiming, options)

\* a slip: the base isDone asks for more than the budget
isDoneStrict(name, data, maxTimeMs, lastTiming) ==
    IF name = "maxmemory"
    THEN lastTiming.computeTimeMs > maxTimeMs
    ELSE data.isDone

\* isDone of the strategy called `name`
isDone(name, data, maxTimeMs, lastTiming) ==
    IF name = "maxmemory"
    THEN lastTiming.computeTimeMs >= maxTimeMs
    ELSE data.isDone

\* the hashCost run records for a sample measured with `options`
hashCost(options) ==
    options.memoryCost * options.parallelism * options.timeCost

\* the default statusCallback (defaultTimingOptions): logs and returns true
statusCallback(timing) == TRUE

(***************************************************************************)
(* getMaxOptions / getMaxOptionsWithStrategies and the optionsCache.       *)
(* A call is one invocation; it advances at each await of run.             *)
(***************************************************************************)
\* optionsCacheKey: `${maxMs}:${timingStrategy}:${selectionStrategy}`; the
\* built-in names hold no ':', so the string determines the three parts
optionsCacheKey(maxMs, timingStrategy, selectionStrategy) ==
    <<maxMs, timingStrategy, selectionStrategy>>

CacheKeys == Budgets \X TimingNames \X SelectionNames

IdleCall ==
    [pc |-> "idle", maxMs |-> 0, tname |-> "", sname |-> "", own |-> FALSE,
     i |-> 0, opts |-> NoOptions, startingOptions |-> NoOptions,
     data |-> NoData, accumulatedTimeMs |-> 0, timings |-> <<>>,
     selected |-> NoTiming, ret |-> NoOptions, hashes |-> 0,
     resolved |-> 0, cb |-> "default", cbLog |-> <<>>]

\* no entry cached yet, and the invocations `ids` not yet made
InitOrchestrator(ids) ==
    /\ optionsCache = [k \in CacheKeys |-> NoOptions]
    /\ calls = [c \in ids |-> IdleCall]

(***************************************************************************)
(* A caller driving one strategy instance directly (test/index.ts):        *)
(* initialize, select, fastest, slowest in any order.                      *)
(***************************************************************************)
\* the series a direct caller can hand to initialize
HandMade(n) ==
    {[i \in 1..n |-> Timing(i, f[i][1], f[i][2], HandOptions)] :
        f \in [1..n -> HandMs \X CostSet]}

AllSeries == UNION {HandMade(n) : n \in 0..MaxLen}

NoOut == [op |-> "none", arg |-> 0, threw |-> FALSE, val |-> NoTiming]

InitSel ==
    /\ sels = [n \in SelectionNames |-> NewSelection]
    /\ cur \in SelectionNames
    /\ series = <<>>
    /\ out = NoOut
    /\ phase = "new"
    /\ InitOrchestrator({})
    /\ InitEnv

\* the caller initializes the instance, and once more with another series
DoInitialize(timings) ==
    LET r == initialize(sels[cur], cur, timings)
    IN  /\ phase # "reinitialized" \/ r.threw
        /\ phase' = IF r.threw THEN phase
                     ELSE IF phase = "new" THEN "initialized"
                     ELSE "reinitialized"
        /\ sels' = [sels EXCEPT ![cur] = r.self]
        /\ series' = IF r.threw THEN series ELSE timings
        /\ out' = [op |-> "initialize", arg |-> Len(timings),
                   threw |-> r.threw, val |-> NoTiming]
        /\ UNCHANGED <<cur, optionsCache, calls, envvars>>

\* the caller initializes the instance with no series at all (arg -1)
DoInitializeMissing ==
    LET r == initializeMissing(sels[cur], cur)
    IN  /\ sels' = [sels EXCEPT ![cur] = r.self]
        /\ out' = [op |-> "initialize", arg |-> -1,
                   threw |-> r.threw, val |-> NoTiming]
        /\ UNCHANGED <<cur, series, phase, optionsCache, calls, envvars>>

DoSelect(maxTimeMs) ==
    LET r == select(sels[cur], maxTimeMs)
    IN  /\ sels' = [sels EXCEPT ![cur] = r.self]
        /\ out' = [op |-> "select", arg |-> maxTimeMs,
                   threw |-> r.threw,
                   val |-> IF r.threw THEN NoTiming ELSE r.val]
        /\ UNCHANGED <<cur, series, phase, optionsCache, calls, envvars>>

DoFastest ==
    /\ out' = [op |-> "fastest", arg |-> 0, threw |-> FALSE,
               val |-> fastest(sels[cur])]
    /\ UNCHANGED <<sels, cur, series, phase, optionsCache, calls, envvars>>

DoSlowest ==
    /\ out' = [op |-> "slowest", arg |-> 0, threw |-> FALSE,
               val |-> slowest(sels[cur])]
    /\ UNCHANGED <<sels, cur, series, phase, optionsCache, calls, envvars>>

NextSel ==
    \/ \E timings \in AllSeries : DoInitialize(timings)
    \/ DoInitializeMissing
    \/ \E b \in SelectBudgets : DoSelect(b)
    \/ DoFastest
    \/ DoSlowest

SpecSel == InitSel /\ [][NextSel]_vars

(***************************************************************************)
(* The steps of one getMaxOptions / getMaxOptionsWithStrategies call.      *)
(***************************************************************************)
\* the call up to its first await: cache lookup, then run up to generateSalt.
\* own = TRUE is getMaxOptions (strategies made for this call), own = FALSE
\* is getMaxOptionsWithStrategies with the caller's instance sels[sname].
Start(c, maxMs, tname, sname, own) ==
    LET options == optionsCache[optionsCacheKey(maxMs, tname, sname)]
        b == onBeforeStart(tname, defaults)
    IN  /\ calls[c].pc = "idle"
        /\ \A d \in CallIds : d < c => calls[d].pc # "idle"
        /\ calls' = [calls EXCEPT ![c] =
              IF options # NoOptions
              THEN [IdleCall EXCEPT !.pc = "done", !.maxMs = maxMs,
                       !.tname = tname, !.sname = sname, !.own = own,
                       !.ret = options]
              ELSE [IdleCall EXCEPT !.pc = "salt", !.maxMs = maxMs,
                       !.tname = tname, !.sname = sname, !.own = own,
                       !.startingOptions = b.startingOptions,
                       !.opts = b.startingOptions,
                       !.data = b.data]]
        /\ UNCHANGED <<sels, callervars, optionsCache, envvars>>

\* a slip: the measured loop entered right after the salt
SaltDoneNoWarmup(c) ==
    /\ calls[c].pc = "salt"
    /\ calls' = [calls EXCEPT ![c].pc = "hash", ![c].i = 0, ![c].hashes = 1]
    /\ UNCHANGED <<sels, callervars, optionsCache, envvars>>

\* generateSalt resolves; the first warm-up hash is started.
\* hashes counts the hash calls started, resolved those that have completed.
SaltDone(c) ==
    /\ calls[c].pc = "salt"
    /\ calls' = [calls EXCEPT ![c].pc = "warmup", ![c].i = 0, ![c].hashes = 1]
    /\ UNCHANGED <<sels, callervars, optionsCache, envvars>>

\* number of warm-up hashes of run
WarmUps == 3

\* a slip: the warm-up hash is not awaited, the next hash starts beside it
WarmupNotAwaited(c) ==
    /\ calls[c].pc = "warmup"
    /\ calls' = [calls EXCEPT
                   ![c].i = @ + 1,
                   ![c].hashes = @ + 1,
                   ![c].pc = IF calls[c].i + 1 < WarmUps THEN "warmup" ELSE "hash"]
    /\ UNCHANGED <<sels, callervars, optionsCache, envvars>>

\* a warm-up hash resolves; the next warm-up or the first measured hash starts
WarmupDone(c) ==
    /\ calls[c].pc = "warmup"
    /\ calls' = [calls EXCEPT
                   ![c].i = @ + 1,
                   ![c].hashes = @ + 1,
                   ![c].resolved = @ + 1,
                   ![c].pc = IF calls[c].i + 1 < WarmUps THEN "warmup" ELSE "hash"]
    /\ UNCHANGED <<sels, callervars, optionsCache, envvars>>

\* what `options.statusCallback && !options.statusCallback(lastTiming)` lets
\* the loop do: go on when no callback is given or the callback answers true.
\* cb is "default" (defaultTimingOptions), "user" (answers `answer`) or "none".
Proceeds(cb, lastTiming, answer) ==
    IF cb = "none" THEN TRUE
    ELSE IF cb = "default" THEN statusCallback(lastTiming)
    ELSE answer

\* a slip: the callback is invoked but its answer is not looked at
RunLoopIgnoresAnswer(call, msElapsed, answer) ==
    LET lastTiming == Timing(Len(call.timings) + 1, msElapsed,
                             hashCost(call.opts), call.opts)
        timings == Append(call.timings, lastTiming)
        go == Proceeds(call.cb, lastTiming, answer)
        cbLog == IF call.cb = "none" THEN call.cbLog
                 ELSE Append(call.cbLog, [timing |-> lastTiming,
                                          pushed |-> Len(timings),
                                          ret |-> go])
        n == applyNextOptions(call.tname, call.data, call.startingOptions,
                              call.maxMs, lastTiming, call.opts)
    IN  [timings |-> timings, opts |-> n.options, data |-> n.data,
         again |-> n.ok /\ ~isDone(call.tname, n.data, call.maxMs, lastTiming),
         cbLog |-> cbLog]

\* a slip: the callback is asked before the sample is pushed, and a cancelled
\* sample is dropped
RunLoopAsksFirst(call, msElapsed, answer) ==
    LET lastTiming == Timing(Len(call.timings) + 1, msElapsed,
                             hashCost(call.opts), call.opts)
        timings == Append(call.timings, lastTiming)
        go == Proceeds(call.cb, lastTiming, answer)
        cbLog == IF call.cb = "none" THEN call.cbLog
                 ELSE Append(call.cbLog, [timing |-> lastTiming,
                                          pushed |-> Len(call.timings),
                                          ret |-> go])
        n == applyNextOptions(call.tname, call.data, call.startingOptions,
                              call.maxMs, lastTiming, call.opts)
    IN  IF ~go
        THEN [timings |-> call.timings, opts |-> call.opts, data |-> call.data,
              again |-> FALSE, cbLog |-> cbLog]
        ELSE [timings |-> timings, opts |-> n.options, data |-> n.data,
              again |-> n.ok /\ ~isDone(call.tname, n.data, call.maxMs, lastTiming),
              cbLog |-> cbLog]

\* a slip: the samples hold the working options themselves, not a clone, so
\* every policy step shows in the samples already recorded
RunLoopNoClone(call, msElapsed, answer) ==
    LET lastTiming == Timing(Len(call.timings) + 1, msElapsed,
                             hashCost(call.opts), call.opts)
        go == Proceeds(call.cb, lastTiming, answer)
        cbLog == IF call.cb = "none" THEN call.cbLog
                 ELSE Append(call.cbLog, [timing |-> lastTiming,
                                          pushed |-> Len(call.timings) + 1,
                                          ret |-> go])
        n == applyNextOptions(call.tname, call.data, call.startingOptions,
                              call.maxMs, lastTiming, call.opts)
        pushed == Append(call.timings, lastTiming)
        aliased == [i \in DOMAIN pushed |->
                       [pushed[i] EXCEPT !.options = n.options]]
    IN  IF ~go
        THEN [timings |-> pushed, opts |-> call.opts, data |-> call.data,
              again |-> FALSE, cbLog |-> cbLog]
        ELSE [timings |-> aliased, opts |-> n.options, data |-> n.data,
              again |-> n.ok /\ ~isDone(call.tname, n.data, call.maxMs, lastTiming),
              cbLog |-> cbLog]

\* a slip: the sample built after the policy step, its hashCost taken from
\* the options the step produced
RunLoopCostsNext(call, msElapsed, answer) ==
    LET measured == Timing(Len(call.timings) + 1, msElapsed,
                           hashCost(call.opts), call.opts)
        go == Proceeds(call.cb, measured, answer)
        n == applyNextOptions(call.tname, call.data, call.startingOptions,
                              call.maxMs, measured, call.opts)
        lastTiming == Timing(Len(call.timings) + 1, msElapsed,
                             hashCost(n.options), call.opts)
        timings == Append(call.timings, lastTiming)
        cbLog == IF call.cb = "none" THEN call.cbLog
                 ELSE Append(call.cbLog, [timing |-> lastTiming,
                                          pushed |-> Len(timings),
                                          ret |-> go])
    IN  IF ~go
        THEN [timings |-> timings, opts |-> call.opts, data |-> call.data,
              again |-> FALSE, cbLog |-> cbLog]
        ELSE [timings |-> timings, opts |-> n.options, data |-> n.data,
              again |-> n.ok /\ ~isDone(call.tname, n.data, call.maxMs, lastTiming),
              cbLog |-> cbLog]

\* one pass of the do-while of run after the measured hash took msElapsed,
\* the caller's callback answering `answer`:
\* [timings, opts, data, again, cbLog]. cbLog records each invocation of the
\* callback: its argument, the length of the series at that moment, its answer.
RunLoop(call, msElapsed, answer) ==
    LET lastTiming == Timing(Len(call.timings) + 1, msElapsed,
                             hashCost(call.opts), call.opts)
        timings == Append(call.timings, lastTiming)
        go == Proceeds(call.cb, lastTiming, answer)
        cbLog == IF call.cb = "none" THEN call.cbLog
                 ELSE Append(call.cbLog, [timing |-> lastTiming,
                                          pushed |-> Len(timings),
                                          ret |-> go])
        n == applyNextOptions(call.tname, call.data, call.startingOptions,
                              call.maxMs, lastTiming, call.opts)
    IN  IF ~go
        THEN [timings |-> timings, opts |-> call.opts, data |-> call.data,
              again |-> FALSE, cbLog |-> cbLog]
        ELSE [timings |-> timings, opts |-> n.options, data |-> n.data,
              again |-> n.ok /\ ~isDone(call.tname, n.data, call.maxMs, lastTiming),
              cbLog |-> cbLog]

\* the pass of a run that was given the default callback
LoopBody(call, msElapsed) == RunLoop(call, msElapsed, TRUE)

\* a slip: run works on the defaults object itself, not on a clone, so each
\* policy step shows in the defaults
HashDoneOnDefaults(c, msElapsed) ==
    LET r == LoopBody(calls[c], msElapsed)
    IN  /\ calls[c].pc = "hash"
        /\ calls' = [calls EXCEPT
                       ![c].timings = r.timings,
                       ![c].opts = r.opts,
                       ![c].data = r.data,
                       ![c].accumulatedTimeMs = @ + msElapsed,
                       ![c].cbLog = r.cbLog,
                       ![c].resolved = @ + 1,
                       ![c].hashes = IF r.again THEN @ + 1 ELSE @,
                       ![c].pc = IF r.again THEN "hash" ELSE "calibrated"]
        /\ defaults' = r.opts
        /\ UNCHANGED <<sels, callervars, optionsCache, limits, os>>

\* a slip: the working options and the policy's scratch data kept on the
\* strategy instance, so a pass of one run sets them for every run that is
\* measuring with that strategy
HashDoneSharedContext(c, msElapsed) ==
    LET r == LoopBody(calls[c], msElapsed)
    IN  /\ calls[c].pc = "hash"
        /\ calls' = [d \in DOMAIN calls |->
              IF d = c
              THEN [calls[c] EXCEPT
                       !.timings = r.timings,
                       !.opts = r.opts,
                       !.data = r.data,
                       !.accumulatedTimeMs = @ + msElapsed,
                       !.cbLog = r.cbLog,
                       !.resolved = @ + 1,
                       !.hashes = IF r.again THEN @ + 1 ELSE @,
                       !.pc = IF r.again THEN "hash" ELSE "calibrated"]
              ELSE IF calls[d].pc = "hash" /\ calls[d].tname = calls[c].tname
              THEN [calls[d] EXCEPT !.opts = r.opts, !.data = r.data]
              ELSE calls[d]]
        /\ UNCHANGED <<sels, callervars, optionsCache, envvars>>

\* a slip: when the loop ends the result is never handed back to the caller
HashDoneNeverReturns(c, msElapsed) ==
    LET r == LoopBody(calls[c], msElapsed)
    IN  /\ calls[c].pc = "hash"
        /\ calls' = [calls EXCEPT
                       ![c].timings = r.timings,
                       ![c].opts = r.opts,
                       ![c].data = r.data,
                       ![c].accumulatedTimeMs = @ + msElapsed,
                       ![c].cbLog = r.cbLog,
                       ![c].resolved = @ + 1,
                       ![c].hashes = IF r.again THEN @ + 1 ELSE @,
                       ![c].pc = IF r.again THEN "hash" ELSE "stopped"]
        /\ UNCHANGED <<sels, callervars, optionsCache, envvars>>

\* the measured hash resolves after msElapsed; the loop goes on with the next
\* hash or run returns its pendingResult
HashDone(c, msElapsed) ==
    LET r == LoopBody(calls[c], msElapsed)
    IN  /\ calls[c].pc = "hash"
        /\ calls' = [calls EXCEPT
                       ![c].timings = r.timings,
                       ![c].opts = r.opts,
                       ![c].data = r.data,
                       ![c].accumulatedTimeMs = @ + msElapsed,
                       ![c].cbLog = r.cbLog,
                       ![c].resolved = @ + 1,
                       ![c].hashes = IF r.again THEN @ + 1 ELSE @,
                       ![c].pc = IF r.again THEN "hash" ELSE "calibrated"]
        /\ UNCHANGED <<sels, callervars, optionsCache, envvars>>

\* the cache key of a call
KeyOf(call) == optionsCacheKey(call.maxMs, call.tname, call.sname)

\* a call that has returned or thrown keeps its arguments and its outcome
Ended(call, pc, selected, ret) ==
    [IdleCall EXCEPT !.pc = pc, !.maxMs = call.maxMs, !.tname = call.tname,
        !.sname = call.sname, !.own = call.own, !.hashes = call.hashes,
        !.resolved = call.resolved, !.cb = call.cb,
        !.selected = selected, !.ret = ret]

\* the options getMaxOptionsWithStrategies stores under the cache key
Stored(selectedTiming) == selectedTiming.options

\* after `await generateTimings`: initialize, select, store, return
Finish(c) ==
    LET call == calls[c]
        inst == IF call.own THEN NewSelection ELSE sels[call.sname]
        ini == initialize(inst, call.sname, call.timings)
        sel == select(ini.self, call.maxMs)
        key == optionsCacheKey(call.maxMs, call.tname, call.sname)
    IN  /\ call.pc = "calibrated"
        /\ IF ini.threw
           THEN /\ calls' = [calls EXCEPT ![c] = Ended(call, "failed", NoTiming, NoOptions)]
                /\ UNCHANGED <<sels, optionsCache>>
           ELSE IF sel.threw \/ sel.val = NoTiming
           THEN /\ calls' = [calls EXCEPT ![c] = Ended(call, "failed", NoTiming, NoOptions)]
                /\ sels' = IF call.own THEN sels
                           ELSE [sels EXCEPT ![call.sname] = sel.self]
                /\ UNCHANGED optionsCache
           ELSE /\ calls' = [calls EXCEPT ![c] =
                                Ended(call, "done", sel.val, Stored(sel.val))]
                /\ sels' = IF call.own THEN sels
                           ELSE [sels EXCEPT ![call.sname] = sel.self]
                /\ optionsCache' = [optionsCache EXCEPT ![key] = Stored(sel.val)]
        /\ UNCHANGED <<callervars, envvars>>

\* a slip: the rejection is caught and the samples measured so far returned
FailReturnsPartial(c) ==
    /\ calls[c].pc \in {"salt", "warmup", "hash"}
    /\ calls' = [calls EXCEPT ![c].pc = "calibrated"]
    /\ UNCHANGED <<sels, callervars, optionsCache, envvars>>

\* a slip: the failing call caches the defaults under its key as a fallback
FailStoresDefaults(c) ==
    /\ calls[c].pc \in {"salt", "warmup", "hash"}
    /\ calls' = [calls EXCEPT ![c] = Ended(calls[c], "failed", NoTiming, NoOptions)]
    /\ optionsCache' = [optionsCache EXCEPT ![KeyOf(calls[c])] = defaults]
    /\ UNCHANGED <<sels, callervars, envvars>>

\* generateSalt or a hash rejects: run and the call reject with that error
Fail(c) ==
    /\ calls[c].pc \in {"salt", "warmup", "hash"}
    /\ calls' = [calls EXCEPT ![c] = Ended(calls[c], "failed", NoTiming, NoOptions)]
    /\ UNCHANGED <<sels, callervars, optionsCache, envvars>>

\* no direct caller of a strategy instance
InitNoCaller ==
    /\ sels = [n \in SelectionNames |-> NewSelection]
    /\ cur = "maxcost"
    /\ series = <<>>
    /\ out = NoOut
    /\ phase = "new"

\* two invocations, a first and a second one, overlapping or not
Init ==
    /\ InitNoCaller
    /\ InitOrchestrator({1, 2})
    /\ InitEnv

Next ==
    \/ \E c \in CallIds, maxMs \in Budgets, tname \in TimingNames,
          sname \in SelectionNames, own \in BOOLEAN :
            Start(c, maxMs, tname, sname, own)
    \/ \E c \in CallIds : SaltDone(c)
    \/ \E c \in CallIds : WarmupDone(c)
    \/ \E c \in CallIds, msElapsed \in MsSet : HashDone(c, msElapsed)
    \/ \E c \in CallIds : Finish(c)
    \/ \E c \in CallIds : Fail(c)

Spec == Init /\ [][Next]_vars

(***************************************************************************)
(* getMaxOptions() as the README calls it, with every argument defaulted   *)
(* (index.ts 429-431): three invocations, overlapping or not.              *)
(***************************************************************************)
\* the call up to its first await, the arguments taking their defaults
StartDefault(c) ==
    \E maxMs \in Budgets : Start(c, maxMs, "closestmatch", "maxcost", TRUE)

InitDefaults ==
    /\ InitNoCaller
    /\ InitOrchestrator({1, 2, 3})
    /\ InitEnv

NextDefaults ==
    \/ \E c \in CallIds : StartDefault(c)
    \/ \E c \in CallIds : SaltDone(c)
    \/ \E c \in CallIds : WarmupDone(c)
    \/ \E c \in CallIds, msElapsed \in MsSet : HashDone(c, msElapsed)
    \/ \E c \in CallIds : Finish(c)
    \/ \E c \in CallIds : Fail(c)

SpecDefaults == InitDefaults /\ [][NextDefaults]_vars

(***************************************************************************)
(* getMaxOptions called with enumerator values (index.ts 428-439), the     *)
(* strategies made by getTimingStrategy / getSelectionStrategy.            *)
(***************************************************************************)
\* enum TimingStrategyType
TimingStrategyType == [MaxMemoryMarch |-> 0, ClosestMatch |-> 1]

\* enum SelectionStrategyType
SelectionStrategyType == [MaxCost |-> 0, ClosestMatch |-> 1]

\* the values a caller passes for an enumerator: 2 is no member of either enum
TypeValues == {0, 1, 2}

\* a slip: the default branch of the switch falls back to a built-in strategy
getTimingStrategyLenient(type) ==
    IF type = TimingStrategyType.MaxMemoryMarch
    THEN [threw |-> FALSE, name |-> "maxmemory"]
    ELSE [threw |-> FALSE, name |-> "closestmatch"]

\* getTimingStrategy(type): [threw, name of the new strategy]
getTimingStrategy(type) ==
    IF type = TimingStrategyType.ClosestMatch
    THEN [threw |-> FALSE, name |-> "closestmatch"]
    ELSE IF type = TimingStrategyType.MaxMemoryMarch
    THEN [threw |-> FALSE, name |-> "maxmemory"]
    ELSE [threw |-> TRUE, name |-> ""]

\* getSelectionStrategy(type): [threw, name of the new strategy]
getSelectionStrategy(type) ==
    IF type = SelectionStrategyType.ClosestMatch
    THEN [threw |-> FALSE, name |-> "closestmatch"]
    ELSE IF type = SelectionStrategyType.MaxCost
    THEN [threw |-> FALSE, name |-> "maxcost"]
    ELSE [threw |-> TRUE, name |-> ""]

\* getMaxOptions(maxMs, timingStrategy, selectionStrategy) up to its first
\* await: the two factories are called while the arguments are evaluated
StartTyped(c, maxMs, timingStrategy, selectionStrategy) ==
    LET t == getTimingStrategy(timingStrategy)
        sel == getSelectionStrategy(selectionStrategy)
    IN  IF t.threw \/ sel.threw
        THEN /\ calls[c].pc = "idle"
             /\ \A d \in CallIds : d < c => calls[d].pc # "idle"
             /\ calls' = [calls EXCEPT ![c] =
                   [IdleCall EXCEPT !.pc = "failed", !.maxMs = maxMs,
                       !.tname = t.name, !.sname = sel.name, !.own = TRUE]]
             /\ UNCHANGED <<sels, callervars, optionsCache, envvars>>
        ELSE Start(c, maxMs, t.name, sel.name, TRUE)

NextTypes ==
    \/ \E c \in CallIds, maxMs \in Budgets,
          timingStrategy \in TypeValues, selectionStrategy \in TypeValues :
            StartTyped(c, maxMs, timingStrategy, selectionStrategy)
    \/ \E c \in CallIds : SaltDone(c)
    \/ \E c \in CallIds : WarmupDone(c)
    \/ \E c \in CallIds, msElapsed \in MsSet : HashDone(c, msElapsed)
    \/ \E c \in CallIds : Finish(c)
    \/ \E c \in CallIds : Fail(c)

\* two getMaxOptions invocations, overlapping or not
SpecTypes == Init /\ [][NextTypes]_vars

(***************************************************************************)
(* Measurement.generateTimings called directly (unnamed/part_001 6-11),    *)
(* on machines and Argon2 builds with other limits, with the caller's own  *)
(* statusCallback; the caller then hands the result to a selection         *)
(* strategy.                                                               *)
(***************************************************************************)
\* elapsed times of a measured hash of these runs, and the budgets asked for:
\* a hash can stay below the budget, take exactly it, or exceed it
RunMs == {1, 2, 3}
RunBudgets == {2, 3}

\* the statusCallback of the TimingOptions: the default one, the caller's, none
CallbackKinds == {"default", "user", "none"}

\* limits with one or three memory costs and time costs; RAM for a memoryCost
\* ceiling of 1 (2 KiB) or 3 (8 KiB); one CPU
RunEnvs ==
    {[defaults |-> [memoryCost |-> 1, timeCost |-> 1, parallelism |-> 1],
      limits   |-> [memoryCost  |-> [min |-> 1, max |-> mm],
                    timeCost    |-> [min |-> 1, max |-> tm],
                    parallelism |-> [min |-> 1, max |-> 2]],
      os       |-> [cpus |-> 1, totalmem |-> ram]] :
        mm \in {1, 3}, tm \in {1, 3}, ram \in {2048, 8192}}

\* the module loaded on one of the machines
InitMachine ==
    \E e \in RunEnvs :
        /\ defaults = e.defaults
        /\ limits = e.limits
        /\ os = e.os

\* one generateTimings invocation not yet made
InitRun ==
    /\ InitNoCaller
    /\ InitOrchestrator({1})
    /\ InitMachine

\* generateTimings({maxTimeMs, statusCallback}, strategy): run up to generateSalt
StartRun(c, maxTimeMs, tname, cb) ==
    LET b == onBeforeStart(tname, defaults)
    IN  /\ calls[c].pc = "idle"
        /\ calls' = [calls EXCEPT ![c] =
              [IdleCall EXCEPT !.pc = "salt", !.maxMs = maxTimeMs,
                  !.tname = tname, !.cb = cb,
                  !.startingOptions = b.startingOptions,
                  !.opts = b.startingOptions,
                  !.data = b.data]]
        /\ UNCHANGED <<sels, callervars, optionsCache, envvars>>

\* the measured hash resolves after msElapsed and the caller's callback, if
\* it is the one given, answers `answer`; the loop goes on or run returns
RunHashDone(c, msElapsed, answer) ==
    LET r == RunLoop(calls[c], msElapsed, answer)
    IN  /\ calls[c].pc = "hash"
        /\ calls' = [calls EXCEPT
                       ![c].timings = r.timings,
                       ![c].opts = r.opts,
                       ![c].data = r.data,
                       ![c].accumulatedTimeMs = @ + msElapsed,
                       ![c].cbLog = r.cbLog,
                       ![c].resolved = @ + 1,
                       ![c].hashes = IF r.again THEN @ + 1 ELSE @,
                       ![c].pc = IF r.again THEN "hash" ELSE "calibrated"]
        /\ UNCHANGED <<sels, callervars, optionsCache, envvars>>

NextRun ==
    \/ \E c \in CallIds, maxTimeMs \in RunBudgets, tname \in TimingNames,
          cb \in CallbackKinds : StartRun(c, maxTimeMs, tname, cb)
    \/ \E c \in CallIds : SaltDone(c)
    \/ \E c \in CallIds : WarmupDone(c)
    \/ \E c \in CallIds, msElapsed \in RunMs, answer \in BOOLEAN :
          RunHashDone(c, msElapsed, answer)
    \/ \E c \in CallIds : Fail(c)

SpecRun == InitRun /\ [][NextRun]_vars

(***************************************************************************)
(* The same runs when every hash call completes and no callback cancels:   *)
(* each pending salt or hash promise resolves in the end.                  *)
(***************************************************************************)
\* generateTimings with the default callback or with none
StartRunQuiet(c) ==
    \E maxTimeMs \in RunBudgets, tname \in TimingNames, cb \in {"default", "none"} :
        StartRun(c, maxTimeMs, tname, cb)

NextRunQuiet ==
    \/ \E c \in CallIds : StartRunQuiet(c)
    \/ \E c \in CallIds : SaltDone(c)
    \/ \E c \in CallIds : WarmupDone(c)
    \/ \E c \in CallIds, msElapsed \in RunMs : HashDone(c, msElapsed)

\* the awaited promises of run resolve: a run that can step does step
SpecRunQuiet == InitRun /\ [][NextRunQuiet]_vars /\ WF_vars(NextRunQuiet)

(***************************************************************************)
(* The test of unnamed/part_001: generateTimings is awaited, then a        *)
(* selection strategy is initialized with the result and queried.          *)
(***************************************************************************)
\* a selector of either kind made, the run not yet started; the Argon2 build
\* has three memory costs and three time costs
InitUse ==
    /\ sels = [n \in SelectionNames |-> NewSelection]
    /\ cur \in SelectionNames
    /\ series = <<>>
    /\ out = NoOut
    /\ phase = "new"
    /\ InitOrchestrator({1})
    /\ InitMachine
    /\ limits.memoryCost.max = 3
    /\ limits.timeCost.max = 3

\* generateTimings({ maxTimeMs }, strategy): the default callback
StartRunDefault(c) ==
    \E maxTimeMs \in RunBudgets, tname \in TimingNames :
        StartRun(c, maxTimeMs, tname, "default")

\* a slip: initialize sorts the array it was given in place
InitializeWithSortInPlace(c) ==
    LET r == initialize(sels[cur], cur, calls[c].timings)
    IN  /\ calls[c].pc = "calibrated"
        /\ phase = "new"
        /\ phase' = IF r.threw THEN phase ELSE "initialized"
        /\ sels' = [sels EXCEPT ![cur] = r.self]
        /\ calls' = [calls EXCEPT ![c].timings =
                        IF r.threw THEN @ ELSE r.self.sortedTimings]
        /\ series' = IF r.threw THEN series ELSE r.self.sortedTimings
        /\ out' = [op |-> "initialize", arg |-> Len(calls[c].timings),
                   threw |-> r.threw, val |-> NoTiming]
        /\ UNCHANGED <<cur, optionsCache, envvars>>

\* selector.initialize(result) with the result of the run, once
InitializeWith(c) ==
    /\ calls[c].pc = "calibrated"
    /\ phase = "new"
    /\ DoInitialize(calls[c].timings)

\* a query of the selector once it was initialized
QueryAfter ==
    /\ phase # "new"
    /\ \/ \E b \in SelectBudgets : DoSelect(b)
       \/ DoFastest
       \/ DoSlowest

NextUse ==
    \/ \E c \in CallIds : StartRunDefault(c)
    \/ \E c \in CallIds : SaltDone(c)
    \/ \E c \in CallIds : WarmupDone(c)
    \/ \E c \in CallIds, msElapsed \in RunMs : HashDone(c, msElapsed)
    \/ \E c \in CallIds : InitializeWith(c)
    \/ QueryAfter

SpecUse == InitUse /\ [][NextUse]_vars

(***************************************************************************)
(* Properties of the Selection strategies (specification SpecSel).         *)
(***************************************************************************)
\* the samples of the initialized series that fit the budget b
Compliant(b) == {t \in Range(series) : t.computeTimeMs <= b}

\* C5: under MaxCost, when some sample fits the budget, select returns a
\* sample that fits and whose hashCost is >= that of every sample that fits.
C5_MaxCostSelectsHighestCost ==
    (cur = "maxcost" /\ phase # "new" /\ out.op = "select"
        /\ Compliant(out.arg) # {})
    => /\ ~out.threw
       /\ out.val \in Compliant(out.arg)
       /\ \A t \in Compliant(out.arg) : out.val.hashCost >= t.hashCost

\* C5 on an instance that was initialized once: the statement holds there
C5_OnceInitialized == phase = "initialized" => C5_MaxCostSelectsHighestCost

\* C6: under ClosestMatch, when some sample fits the budget, select returns a
\* sample whose computeTimeMs is the largest computeTimeMs that fits.
C6_ClosestMatchSelectsNearest ==
    (cur = "closestmatch" /\ phase # "new" /\ out.op = "select"
        /\ Compliant(out.arg) # {})
    => /\ ~out.threw
       /\ out.val \in Compliant(out.arg)
       /\ \A t \in Compliant(out.arg) : out.val.computeTimeMs >= t.computeTimeMs

\* C6 on an instance that was initialized once: the statement holds there
C6_OnceInitialized == phase = "initialized" => C6_ClosestMatchSelectsNearest

\* C7: for both policies, when some sample fits the budget, select returns an
\* element of the series that fits, the last such one of the ranked ordering
\* (a sample taking exactly the budget fits).
C7_SelectReturnsLastFitting ==
    (phase # "new" /\ out.op = "select" /\ Compliant(out.arg) # {})
    => /\ ~out.threw
       /\ out.val \in Compliant(out.arg)
       /\ \E i \in 1..Len(sels[cur].sortedTimings) :
            /\ sels[cur].sortedTimings[i] = out.val
            /\ \A j \in (i + 1)..Len(sels[cur].sortedTimings) :
                 sels[cur].sortedTimings[j].computeTimeMs > out.arg

\* C7 on an instance that was initialized once: the statement holds there
C7_OnceInitialized == phase = "initialized" => C7_SelectReturnsLastFitting

\* t is the first sample of the series among those with the least computeTimeMs
IsFastest(t) ==
    /\ t \in Range(series)
    /\ \A u \in Range(series) :
         \/ t.computeTimeMs < u.computeTimeMs
         \/ t.computeTimeMs = u.computeTimeMs /\ t.id <= u.id

\* t is the last sample of the series among those with the greatest computeTimeMs
IsSlowest(t) ==
    /\ t \in Range(series)
    /\ \A u \in Range(series) :
         \/ t.computeTimeMs > u.computeTimeMs
         \/ t.computeTimeMs = u.computeTimeMs /\ t.id >= u.id

\* C8: when no sample of the initialized series fits the budget, select
\* returns the fastest sample of the series, on every call.
C8_FallbackIsFastest ==
    (phase # "new" /\ out.op = "select" /\ Compliant(out.arg) = {})
    => ~out.threw /\ IsFastest(out.val)

\* C8 on an instance that was initialized once: the statement holds there
C8_OnceInitialized == phase = "initialized" => C8_FallbackIsFastest

C10_FastestSlowest ==
    /\ phase # "new" =>
         /\ IsFastest(sels[cur].fastestTiming)
         /\ IsSlowest(sels[cur].slowestTiming)
    /\ (phase # "new" /\ out.op = "fastest") => IsFastest(out.val)
    /\ (phase # "new" /\ out.op = "slowest") => IsSlowest(out.val)

\* C10 witness: fastest() answered after a select was memoized, on a series
\* whose first sample is not the fastest
C10_Witness ==
    /\ phase # "new" /\ out.op = "fastest"
    /\ Len(series) >= 2 /\ out.val # series[1]
    /\ \E b \in SelectBudgets : sels[cur].timingsCache[b] # NoTiming

\* C11: initialize called with a missing series (arg -1) or with a series of
\* zero samples (arg 0) throws, and the instance keeps its ranked ordering,
\* its fastest and its slowest sample (and its memoized answers).
C11_EmptySeriesRejected ==
    [][(out'.op = "initialize" /\ out'.arg <= 0)
       => /\ out'.threw
          /\ sels'[cur].sortedTimings = sels[cur].sortedTimings
          /\ sels'[cur].fastestTiming = sels[cur].fastestTiming
          /\ sels'[cur].slowestTiming = sels[cur].slowestTiming
          /\ sels'[cur].timingsCache = sels[cur].timingsCache
          /\ series' = series /\ phase' = phase
      ]_vars

\* C11 witness: an initialized instance has rejected an empty series and
\* still holds the ranking and the extremes of the series it had
C11_Witness ==
    /\ phase # "new" /\ Len(series) = MaxLen
    /\ out.op = "initialize" /\ out.arg = 0 /\ out.threw
    /\ sels[cur].sortedTimings = getSortedTimings(cur, series)
    /\ sels[cur].fastestTiming = FastestOf(series)
    /\ sels[cur].slowestTiming = SlowestOf(series)

(***************************************************************************)
(* Properties of getMaxOptions / getMaxOptionsWithStrategies               *)
(* (specifications Spec and SpecDefaults).                                 *)
(***************************************************************************)
\* the call has returned options it selected from its own calibration
Calibrated(call) == call.pc = "done" /\ call.selected # NoTiming

IsFastestOf(t, timings) ==
    /\ t \in Range(timings)
    /\ \A u \in Range(timings) :
         \/ t.computeTimeMs < u.computeTimeMs
         \/ t.computeTimeMs = u.computeTimeMs /\ t.id <= u.id

C2_SequentialCallsAgree ==
    [][\A c, d \in CallIds :
         (/\ calls[c].pc = "idle" /\ calls'[c].pc # "idle"
          /\ calls[d].pc = "done"
          /\ KeyOf(calls'[c]) = KeyOf(calls[d]))
         => /\ calls'[c].pc = "done"
            /\ calls'[c].hashes = 0
            /\ calls'[c].ret = calls[d].ret
      ]_vars

\* the call has started a calibration run that did not fail
Measuring(call) ==
    \/ call.pc \in {"salt", "warmup", "hash", "calibrated"}
    \/ call.pc = "done" /\ call.hashes > 0

\* C3: calibration is run at most once per cache key, whatever the
\* interleaving of the calls.
C3_OneCalibrationPerKey ==
    \A c, d \in CallIds :
        (c # d /\ Measuring(calls[c]) /\ Measuring(calls[d]))
        => KeyOf(calls[c]) # KeyOf(calls[d])

\* C4: once the cache holds a value for a key, no call replaces or removes it.
C4_FirstWriterWins ==
    [][\A k \in CacheKeys :
         optionsCache[k] # NoOptions => optionsCache'[k] = optionsCache[k]
      ]_vars

(***************************************************************************)
(* Properties of a calibration run (specifications SpecRun, SpecRunQuiet,  *)
(* SpecUse).                                                               *)
(***************************************************************************)
\* C12: for each of the limits, budgets and policies, and whatever the
\* measured times, a run whose salt and hash calls all complete and whose
\* callback never cancels returns its series in the end.
C12_RunReturns == (calls[1].pc = "salt") ~> (calls[1].pc = "calibrated")

\* C12 witness: a run has returned after walking every memory cost at every
\* time cost of the limits
C12_Witness ==
    /\ calls[1].pc = "calibrated"
    /\ limits.memoryCost.max = 3 /\ limits.timeCost.max = 3
    /\ Len(calls[1].timings) = 9

\* number of values of a cost option the limits allow
RangeOf(limit) == limit.max - limit.min + 1

\* C13: the number of samples a run measures is at most the memoryCost range
\* plus the timeCost range of the limits.
C13_SamplesWithinRangeSum ==
    \A c \in CallIds :
        Len(calls[c].timings)
            <= RangeOf(limits.memoryCost) + RangeOf(limits.timeCost)

\* what does hold: a run measures at most one sample per pair of a memory
\* cost and a time cost, so the ranges multiply
C13_SamplesWithinRangeProduct ==
    \A c \in CallIds :
        Len(calls[c].timings)
            <= RangeOf(limits.memoryCost) * RangeOf(limits.timeCost)

\* the run of call was given a callback
HasCallback(call) == call.cb # "none" /\ call.pc \in {"hash", "calibrated"}

\* C14: a run's callback has been invoked exactly once per sample of the
\* series, in measurement order, each time with the sample just appended as
\* the last element of the series; only the last invocation can have
\* answered false, and then the run has returned: no hash is pending, the
\* working options are those of the cancelling sample and the policy's data
\* is what the previous step left (applyNextOptions was not called), and the
\* series ends with the sample the callback cancelled on.
C14_CallbackPerSample ==
    \A c \in CallIds :
        HasCallback(calls[c])
        => LET call == calls[c]
               n == Len(call.cbLog)
           IN  /\ n = Len(call.timings)
               /\ \A i \in 1..n :
                     /\ call.cbLog[i].timing = call.timings[i]
                     /\ call.cbLog[i].pushed = i
                     /\ i < n => call.cbLog[i].ret
               /\ (n > 0 /\ ~call.cbLog[n].ret)
                  => /\ call.pc = "calibrated"
                     /\ call.hashes = call.resolved
                     /\ call.opts = call.timings[n].options
                     /\ Last(call.timings) = call.cbLog[n].timing

\* C14, the step that cancels: the policy's data and the working options are
\* not touched and no hash is started
C14_CancelStopsRun ==
    [][\A c \in CallIds :
         (/\ calls[c].pc = "hash" /\ calls[c].cb # "none"
          /\ Len(calls'[c].cbLog) = Len(calls[c].cbLog) + 1
          /\ ~Last(calls'[c].cbLog).ret)
         => /\ calls'[c].pc = "calibrated"
            /\ calls'[c].hashes = calls[c].hashes
            /\ calls'[c].opts = calls[c].opts
            /\ calls'[c].data = calls[c].data
            /\ calls'[c].timings = Append(calls[c].timings, Last(calls'[c].cbLog).timing)
      ]_vars

\* C14 as one formula
C14_Callback == []C14_CallbackPerSample /\ C14_CancelStopsRun

\* C14 witness: the caller's callback has cancelled a ClosestMatch run on its
\* third sample
C14_Witness ==
    \E c \in CallIds :
        /\ calls[c].cb = "user" /\ calls[c].tname = "closestmatch"
        /\ calls[c].pc = "calibrated"
        /\ Len(calls[c].timings) = 3 /\ Len(calls[c].cbLog) = 3
        /\ ~calls[c].cbLog[3].ret

\* hash calls of the run that were started and have not completed
Pending(call) == call.hashes - call.resolved

\* C15: a run has at most one hash pending; a hash is started only when none
\* is pending or in the step in which the pending one completes; and a
\* sample is appended, the callback invoked or the policy stepped only in a
\* step in which the pending hash completes.
C15_OneHashAtATime ==
    /\ [](\A c \in CallIds : Pending(calls[c]) \in {0, 1})
    /\ [][\A c \in CallIds :
            /\ calls'[c].hashes > calls[c].hashes
               => /\ calls'[c].hashes = calls[c].hashes + 1
                  /\ \/ Pending(calls[c]) = 0
                     \/ calls'[c].resolved = calls[c].resolved + 1
            /\ (/\ calls[c].pc \in {"warmup", "hash"}
                /\ calls'[c].pc # "failed"
                /\ \/ calls'[c].timings # calls[c].timings
                   \/ calls'[c].cbLog # calls[c].cbLog
                   \/ calls'[c].opts # calls[c].opts
                   \/ calls'[c].data # calls[c].data)
               => /\ Pending(calls[c]) = 1
                  /\ calls'[c].resolved = calls[c].resolved + 1
         ]_vars

\* C15 witness: the third measured hash of a run is pending, after the
\* three warm-ups and two samples
C15_Witness ==
    \E c \in CallIds :
        /\ calls[c].pc = "hash" /\ Len(calls[c].timings) = 2
        /\ calls[c].hashes = WarmUps + 3 /\ Pending(calls[c]) = 1

\* C16: a run that returns, under either policy, for each budget and
\* callback, returns a series of at least one sample, which initialize of
\* either selection strategy accepts.
C16_SeriesNeverEmpty ==
    \A c \in CallIds :
        calls[c].pc = "calibrated"
        => /\ Len(calls[c].timings) >= 1
           /\ \A n \in SelectionNames :
                 ~initialize(NewSelection, n, calls[c].timings).threw

\* C16 witness: the caller's callback cancelled on the first sample and the
\* run returned that one sample
C16_Witness ==
    \E c \in CallIds :
        /\ calls[c].pc = "calibrated" /\ calls[c].cb = "user"
        /\ Len(calls[c].timings) = 1
        /\ ~calls[c].cbLog[1].ret

\* C17: a run whose salt generation or hash call failed has returned no
\* series (no sample, no options) to its caller; the failing step starts no
\* hash and completes none (no retry), and nothing of the call changes
\* afterwards; a run that did return a series had every hash call it
\* started complete.
C17_FailureAbortsRun ==
    /\ [](\A c \in CallIds :
            /\ calls[c].pc = "failed"
               => /\ calls[c].timings = <<>>
                  /\ calls[c].selected = NoTiming
                  /\ calls[c].ret = NoOptions
            /\ calls[c].pc = "calibrated" => Pending(calls[c]) = 0)
    /\ [][\A c \in CallIds :
            /\ (calls[c].pc # "failed" /\ calls'[c].pc = "failed")
               => /\ calls'[c].hashes = calls[c].hashes
                  /\ calls'[c].resolved = calls[c].resolved
            /\ calls[c].pc = "failed" => calls'[c] = calls[c]
         ]_vars

\* C17 witness: the third measured hash of a run failed after two samples
\* had been measured
C17_Witness ==
    \E c \in CallIds :
        /\ calls[c].pc = "failed"
        /\ calls[c].hashes = WarmUps + 3 /\ calls[c].resolved = WarmUps + 2

C18_LaterCallCalibrates ==
    [][\A c \in CallIds :
         (/\ calls[c].pc = "idle" /\ calls'[c].pc # "idle"
          /\ \E d \in CallIds :
                /\ calls[d].pc = "failed"
                /\ KeyOf(calls[d]) = KeyOf(calls'[c]))
         => calls'[c].pc = "salt"
      ]_vars

C19_UnknownPolicyFails ==
    /\ [](\A type \in TypeValues :
            /\ type \notin {TimingStrategyType.MaxMemoryMarch,
                            TimingStrategyType.ClosestMatch}
               => getTimingStrategy(type).threw
            /\ type \notin {SelectionStrategyType.MaxCost,
                            SelectionStrategyType.ClosestMatch}
               => getSelectionStrategy(type).threw)
    /\ [](\A c \in CallIds :
            (calls[c].pc # "idle" /\ (calls[c].tname = "" \/ calls[c].sname = ""))
            => /\ calls[c].pc = "failed"
               /\ calls[c].hashes = 0
               /\ calls[c].timings = <<>>)
    /\ [][\A c \in CallIds :
            (/\ calls[c].pc = "idle" /\ calls'[c].pc # "idle"
             /\ (calls'[c].tname = "" \/ calls'[c].sname = ""))
            => optionsCache' = optionsCache
         ]_vars

\* C19 witness: a getMaxOptions call with a known timing policy and an
\* unknown selection policy has failed without a hash, while the cache holds
\* the entry of the other call
C19_Witness ==
    \E c, d \in CallIds :
        /\ calls[c].pc = "failed" /\ calls[c].hashes = 0
        /\ calls[c].tname # "" /\ calls[c].sname = ""
        /\ calls[d].pc = "done" /\ calls[d].hashes > 0
        /\ optionsCache[KeyOf(calls[d])] = calls[d].ret

DeepEqual(a, b) ==
    /\ a.computeTimeMs = b.computeTimeMs
    /\ a.hashCost = b.hashCost
    /\ a.options = b.options

FirstAnswer(b) == select(initialize(NewSelection, cur, series).self, b)

\* C22: within one instance and one initialized series, select(b) returns the
\* sample the first select(b) returned, whatever selects for other budgets
\* and fastest()/slowest() calls came in between, and every memoized answer is
\* the first answer of its own budget.
C22_SelectMemoized ==
    phase = "initialized"
    => /\ (out.op = "select")
          => /\ out.threw = FirstAnswer(out.arg).threw
             /\ out.val = FirstAnswer(out.arg).val
       /\ \A b \in DOMAIN sels[cur].timingsCache :
             sels[cur].timingsCache[b] # NoTiming
             => sels[cur].timingsCache[b] = FirstAnswer(b).val

\* C22 witness: select answered from the memo while another budget's memo
\* holds another sample
C22_Witness ==
    /\ phase = "initialized"
    /\ out.op = "select" /\ ~out.threw
    /\ sels[cur].timingsCache[out.arg] = out.val
    /\ \E b \in DOMAIN sels[cur].timingsCache :
          /\ b # out.arg
          /\ sels[cur].timingsCache[b] # NoTiming
          /\ sels[cur].timingsCache[b] # out.val

\* v lies within a limit of the Argon2 build
Within(limit, v) == limit.min <= v /\ v <= limit.max

\* the three cost fields of options lie within the limits
WithinLimits(options) ==
    /\ Within(limits.memoryCost, options.memoryCost)
    /\ Within(limits.timeCost, options.timeCost)
    /\ Within(limits.parallelism, options.parallelism)

\* C23: every sample a run records, under either policy, has memoryCost,
\* timeCost and parallelism within the limits, and the options a policy step
\* leaves for the next hash are within the limits too.
C23_SamplesWithinLimits ==
    \A c \in CallIds :
        /\ \A t \in Range(calls[c].timings) : WithinLimits(t.options)
        /\ calls[c].pc \in {"salt", "warmup", "hash", "calibrated"}
           => WithinLimits(calls[c].opts)

\* C23 witness: a run has measured a sample at the maximum memoryCost and the
\* maximum timeCost of limits that leave room above the defaults
C23_Witness ==
    \E c \in CallIds :
        /\ limits.memoryCost.max > defaults.memoryCost
        /\ limits.timeCost.max > defaults.timeCost
        /\ \E t \in Range(calls[c].timings) :
              /\ t.options.memoryCost = limits.memoryCost.max
              /\ t.options.timeCost = limits.timeCost.max

\* the sample reached the budget of the run of call
Overshot(call, t) == t.computeTimeMs >= call.maxMs

\* sample i of the run of call reached the budget and the sample before it,
\* if there is one, did not
FirstOvershoot(call, i) ==
    /\ Overshot(call, call.timings[i])
    /\ i > 1 => ~Overshot(call, call.timings[i - 1])

\* C24: in a ClosestMatch run, the sample after one below the budget has the
\* same memoryCost and timeCost + 1; the sample after one that reached the
\* budget, when the one before it did not and memoryCost was below its limit,
\* has memoryCost + 1 and the starting timeCost.
C24_ClosestMatchStepRule ==
    \A c \in CallIds :
        calls[c].tname = "closestmatch"
        => \A i \in 1..(Len(calls[c].timings) - 1) :
              LET a == calls[c].timings[i].options
                  b == calls[c].timings[i + 1].options
              IN  /\ ~Overshot(calls[c], calls[c].timings[i])
                     => /\ b.memoryCost = a.memoryCost
                        /\ b.timeCost = a.timeCost + 1
                  /\ (FirstOvershoot(calls[c], i)
                       /\ a.memoryCost < limits.memoryCost.max)
                     => /\ b.memoryCost = a.memoryCost + 1
                        /\ b.timeCost = calls[c].startingOptions.timeCost
                        /\ b.timeCost = defaults.timeCost

\* C24 witness: a ClosestMatch run raised timeCost after a sample below the
\* budget, overshot, and measured the next memory level at the starting
\* timeCost
C24_Witness ==
    \E c \in CallIds :
        /\ calls[c].tname = "closestmatch"
        /\ Len(calls[c].timings) >= 3
        /\ ~Overshot(calls[c], calls[c].timings[1])
        /\ calls[c].timings[2].options.timeCost
              = calls[c].timings[1].options.timeCost + 1
        /\ Overshot(calls[c], calls[c].timings[2])
        /\ calls[c].timings[3].options.memoryCost
              = calls[c].timings[2].options.memoryCost + 1
        /\ calls[c].timings[3].options.timeCost = defaults.timeCost

\* the run of call returned and no callback answer stopped it
EndedUncancelled(call) ==
    /\ call.pc = "calibrated"
    /\ \A i \in 1..Len(call.cbLog) : call.cbLog[i].ret

\* sample i of the run of call is the first attempt of its memory level (it
\* has the starting timeCost) and reached the budget
FirstAttemptOvershot(call, i) ==
    /\ Overshot(call, call.timings[i])
    /\ call.timings[i].options.timeCost = call.startingOptions.timeCost

\* C25: a ClosestMatch run that was not cancelled has ended only when two
\* consecutive memory levels each reached the budget on their first attempt,
\* or when memoryCost is at its limit.
C25_EndsOnTwoFirstAttempts ==
    \A c \in CallIds :
        (calls[c].tname = "closestmatch" /\ EndedUncancelled(calls[c]))
        => LET t == calls[c].timings
               n == Len(t)
           IN  \/ /\ FirstAttemptOvershot(calls[c], n)
                  /\ \E j \in 1..(n - 1) :
                        /\ FirstAttemptOvershot(calls[c], j)
                        /\ t[j].options.memoryCost + 1 = t[n].options.memoryCost
               \/ t[n].options.memoryCost = limits.memoryCost.max

\* C25 amended: it has ended only at a first attempt that reached the budget
\* right after the sample that closed the level below by reaching it (at any
\* timeCost), or at a sample that reached the budget at the memoryCost limit,
\* or at a sample below the budget at the timeCost limit.
C25_EndsOnTwoInARow ==
    \A c \in CallIds :
        (calls[c].tname = "closestmatch" /\ EndedUncancelled(calls[c]))
        => LET t == calls[c].timings
               n == Len(t)
           IN  \/ /\ n >= 2
                  /\ FirstAttemptOvershot(calls[c], n)
                  /\ Overshot(calls[c], t[n - 1])
                  /\ t[n - 1].options.memoryCost + 1 = t[n].options.memoryCost
               \/ /\ Overshot(calls[c], t[n])
                  /\ t[n].options.memoryCost = limits.memoryCost.max
               \/ /\ ~Overshot(calls[c], t[n])
                  /\ t[n].options.timeCost = limits.timeCost.max

\* C25 witness: a run ended, below the memoryCost limit, at a first attempt
\* that reached the budget after the level below had reached it only at its
\* second timeCost
C25_Witness ==
    \E c \in CallIds :
        /\ calls[c].tname = "closestmatch" /\ EndedUncancelled(calls[c])
        /\ Len(calls[c].timings) = 3
        /\ ~Overshot(calls[c], calls[c].timings[1])
        /\ Overshot(calls[c], calls[c].timings[2])
        /\ FirstAttemptOvershot(calls[c], 3)
        /\ calls[c].timings[3].options.memoryCost < limits.memoryCost.max

\* the positions of the samples of the run of call that reached the budget
Overshoots(call) ==
    {i \in 1..Len(call.timings) : Overshot(call, call.timings[i])}

Ceiling(call) == call.data.memoryCostMax

\* C27: in a MaxMemoryMarch run, the sample after one with memoryCost below
\* the ceiling has memoryCost + 1 and the same timeCost, and timeCost grows
\* from one sample to the next only when the earlier sample's memoryCost was
\* at the ceiling or above.
C27_MemoryBeforeTime ==
    \A c \in CallIds :
        calls[c].tname = "maxmemory"
        => \A i \in 1..(Len(calls[c].timings) - 1) :
              LET a == calls[c].timings[i].options
                  b == calls[c].timings[i + 1].options
              IN  /\ a.memoryCost < Ceiling(calls[c])
                     => /\ b.memoryCost = a.memoryCost + 1
                        /\ b.timeCost = a.timeCost
                  /\ b.timeCost # a.timeCost
                     => /\ b.timeCost = a.timeCost + 1
                        /\ a.memoryCost >= Ceiling(calls[c])

\* C27 witness: a MaxMemoryMarch run raised memoryCost twice up to the ceiling
\* and then timeCost
C27_Witness ==
    \E c \in CallIds :
        /\ calls[c].tname = "maxmemory"
        /\ Len(calls[c].timings) >= 4
        /\ calls[c].timings[2].options.memoryCost
              = calls[c].timings[1].options.memoryCost + 1
        /\ calls[c].timings[3].options.memoryCost = Ceiling(calls[c])
        /\ calls[c].timings[3].options.timeCost
              = calls[c].timings[1].options.timeCost
        /\ calls[c].timings[4].options.timeCost
              = calls[c].timings[3].options.timeCost + 1

Exhausted(call, t) ==
    /\ t.options.memoryCost = Ceiling(call)
    /\ t.options.timeCost = limits.timeCost.max

\* C29: a MaxMemoryMarch run that was not cancelled has ended exactly when
\* its last sample reached the budget or was measured at the memoryCost
\* ceiling and the timeCost limit; every sample but the last of a series is
\* below the budget.
C29_MaxMemoryMarchEnds ==
    \A c \in CallIds :
        (calls[c].tname = "maxmemory" /\ Len(calls[c].timings) > 0)
        => LET t == calls[c].timings
               n == Len(t)
               stop == Overshot(calls[c], t[n]) \/ Exhausted(calls[c], t[n])
           IN  /\ EndedUncancelled(calls[c]) => stop
               /\ calls[c].pc = "hash" => ~stop
               /\ \A i \in 1..(n - 1) : ~Overshot(calls[c], t[i])

\* C29 witness: a run ended by a sample below the budget measured at a
\* ceiling above the defaults' memoryCost and at the timeCost limit
C29_Witness ==
    \E c \in CallIds :
        /\ calls[c].tname = "maxmemory" /\ EndedUncancelled(calls[c])
        /\ Len(calls[c].timings) >= 3
        /\ Ceiling(calls[c]) > defaults.memoryCost
        /\ Exhausted(calls[c], Last(calls[c].timings))
        /\ ~Overshot(calls[c], Last(calls[c].timings))

\* C29 witness of the other end: a run ended by its third sample, the first
\* to reach the budget, short of the ceiling
C29_WitnessBudget ==
    \E c \in CallIds :
        /\ calls[c].tname = "maxmemory" /\ EndedUncancelled(calls[c])
        /\ Len(calls[c].timings) = 3
        /\ Overshot(calls[c], calls[c].timings[3])
        /\ ~Exhausted(calls[c], calls[c].timings[3])

\* twice the CPU count, brought into the parallelism limits
ClampedParallelism ==
    IF os.cpus * 2 > limits.parallelism.max
    THEN (IF limits.parallelism.max < limits.parallelism.min
          THEN limits.parallelism.min ELSE limits.parallelism.max)
    ELSE (IF os.cpus * 2 < limits.parallelism.min
          THEN limits.parallelism.min ELSE os.cpus * 2)

\* C30: in every run, under either policy, the options of the warm-up hashes
\* and of every measured hash, and the options recorded in every sample, have
\* parallelism = max(min(2 x CPU count, limit max), limit min).
C30_ParallelismFixed ==
    \A c \in CallIds :
        /\ calls[c].pc \in {"salt", "warmup", "hash", "calibrated"}
           => /\ calls[c].opts.parallelism = ClampedParallelism
              /\ calls[c].startingOptions.parallelism = ClampedParallelism
        /\ \A t \in Range(calls[c].timings) :
              t.options.parallelism = ClampedParallelism

\* C30 witness: a run past its warm-ups whose samples differ in memoryCost and
\* in timeCost and all have the clamped parallelism, which is not the
\* defaults' one
C30_Witness ==
    \E c \in CallIds :
        /\ calls[c].hashes > WarmUps
        /\ ClampedParallelism # defaults.parallelism
        /\ \E t, u \in Range(calls[c].timings) :
              /\ t.options.memoryCost # u.options.memoryCost
              /\ t.options.timeCost # u.options.timeCost
              /\ t.options.parallelism = ClampedParallelism
              /\ u.options.parallelism = ClampedParallelism

\* C31: a run generates the salt, then makes exactly 3 warm-up hashes with
\* the initial parameters, then the measured hashes; the warm-ups produce no
\* sample and no callback, so a completed run made series length + 3 hash
\* calls.
C31_WarmUpsThenMeasured ==
    \A c \in CallIds :
        LET call == calls[c]
        IN  /\ call.pc = "salt"
               => call.hashes = 0 /\ call.timings = <<>> /\ call.cbLog = <<>>
            /\ call.pc = "warmup"
               => /\ call.hashes \in 1..3
                  /\ call.hashes = call.i + 1
                  /\ call.timings = <<>> /\ call.cbLog = <<>>
                  /\ call.accumulatedTimeMs = 0
                  /\ call.opts = call.startingOptions
            /\ call.pc = "hash"
               => call.hashes = Len(call.timings) + 3 + 1
            /\ call.pc = "calibrated"
               => call.hashes = Len(call.timings) + 3
            /\ Len(call.cbLog) <= Len(call.timings)

\* C31 witness: a completed run of four samples made seven hash calls
C31_Witness ==
    \E c \in CallIds :
        /\ calls[c].pc = "calibrated"
        /\ Len(calls[c].timings) = 4
        /\ calls[c].hashes = 7 /\ calls[c].resolved = 7

\* C32: every sample a run records has hashCost = memoryCost x parallelism x
\* timeCost of the options recorded in that same sample, the ones its hash
\* was measured with.
C32_HashCostOfOwnOptions ==
    \A c \in CallIds :
        \A i \in 1..Len(calls[c].timings) :
            LET t == calls[c].timings[i]
            IN  /\ t.hashCost = t.options.memoryCost * t.options.parallelism
                                    * t.options.timeCost
                /\ i = Len(calls[c].timings) /\ calls[c].pc = "hash"
                   => t.options # calls[c].opts

\* C32 witness: a sample of cost 2 x 2 x 1 recorded while the working options
\* have already moved on to a cost of 3 x 2 x 1
C32_Witness ==
    \E c \in CallIds :
        /\ calls[c].pc = "hash"
        /\ Len(calls[c].timings) = 2
        /\ calls[c].timings[2].hashCost = 4
        /\ calls[c].timings[2].options.memoryCost = 2
        /\ hashCost(calls[c].opts) = 6

\* C33: the series of a run is append-only and in measurement order: a pass
\* of the loop appends exactly one sample at the end, and no step of a run
\* that goes on or returns changes, reorders or removes a recorded sample.
C33_SeriesAppendOnly ==
    [][\A c \in CallIds :
          (calls[c].pc \in {"salt", "warmup", "hash", "calibrated"}
            /\ calls'[c].pc \in {"warmup", "hash", "calibrated"})
          => LET old == calls[c].timings
                 new == calls'[c].timings
             IN  IF calls[c].pc = "hash"
                 THEN /\ Len(new) = Len(old) + 1
                      /\ SubSeq(new, 1, Len(old)) = old
                      /\ new[Len(new)].id = Len(new)
                      /\ new[Len(new)].options = calls[c].opts
                 ELSE new = old
      ]_vars

\* C33 witness: three samples in measurement order, the first still holding
\* the starting options while the working options have moved on twice
C33_Witness ==
    \E c \in CallIds :
        /\ calls[c].pc = "hash"
        /\ Len(calls[c].timings) = 3
        /\ \A i \in 1..3 : calls[c].timings[i].id = i
        /\ calls[c].timings[1].options = calls[c].startingOptions
        /\ calls[c].timings[2].options # calls[c].timings[1].options
        /\ calls[c].timings[3].options # calls[c].timings[2].options
        /\ calls[c].opts # calls[c].timings[3].options

\* the sample took exactly the budget of the run of call
OnBudget(call, t) == t.computeTimeMs = call.maxMs

\* C34: a sample whose elapsed time equals the budget is no overshoot: a
\* ClosestMatch run goes on from it with the same memoryCost and timeCost + 1,
\* and it does not end an uncancelled MaxMemoryMarch run short of the limits.
C34_EqualIsWithinBudget ==
    \A c \in CallIds :
        LET t == calls[c].timings
            n == Len(t)
        IN  /\ calls[c].tname = "closestmatch"
               => \A i \in 1..(n - 1) :
                     OnBudget(calls[c], t[i])
                     => /\ t[i + 1].options.memoryCost = t[i].options.memoryCost
                        /\ t[i + 1].options.timeCost = t[i].options.timeCost + 1
            /\ (calls[c].tname = "maxmemory" /\ EndedUncancelled(calls[c])
                  /\ OnBudget(calls[c], t[n]))
               => Exhausted(calls[c], t[n])

\* C34 amended: a sample whose elapsed time equals the budget is an overshoot
\* like one over it: the next sample of a ClosestMatch run, if there is one,
\* is at memoryCost + 1 and the starting timeCost, and a MaxMemoryMarch run
\* measures nothing after it.
C34_EqualIsOvershoot ==
    \A c \in CallIds :
        LET t == calls[c].timings
            n == Len(t)
        IN  /\ calls[c].tname = "closestmatch"
               => \A i \in 1..(n - 1) :
                     OnBudget(calls[c], t[i])
                     => /\ t[i + 1].options.memoryCost
                              = t[i].options.memoryCost + 1
                        /\ t[i + 1].options.timeCost
                              = calls[c].startingOptions.timeCost
            /\ calls[c].tname = "maxmemory"
               => /\ \A i \in 1..(n - 1) : ~OnBudget(calls[c], t[i])
                  /\ (n > 0 /\ OnBudget(calls[c], t[n]))
                     => calls[c].pc = "calibrated"

\* C34 witness: a ClosestMatch run moved to the next memory level after a
\* second-timeCost sample that took exactly the budget
C34_Witness ==
    \E c \in CallIds :
        /\ calls[c].tname = "closestmatch"
        /\ Len(calls[c].timings) >= 3
        /\ OnBudget(calls[c], calls[c].timings[2])
        /\ calls[c].timings[2].options.timeCost
              = calls[c].startingOptions.timeCost + 1
        /\ calls[c].timings[3].options.memoryCost
              = calls[c].timings[2].options.memoryCost + 1
        /\ calls[c].timings[3].options.timeCost
              = calls[c].startingOptions.timeCost

\* C35: after initialize was called again with a new series, every select(b)
\* returns a sample of the series initialized last, also for a budget that
\* was selected under the series before.
C35_SelectFromLatestSeries ==
    (phase = "reinitialized" /\ out.op = "select" /\ ~out.threw)
    => \E i \in 1..Len(series) : DeepEqual(out.val, series[i])

\* the options the policy of the run of call leaves for the next hash after
\* the sample t, as far as the sample and the run's own constants tell
NextFrom(call, t) ==
    IF call.tname = "maxmemory"
    THEN IF t.options.memoryCost < Ceiling(call)
         THEN [t.options EXCEPT !.memoryCost = @ + 1]
         ELSE [t.options EXCEPT !.memoryCost = defaults.memoryCost,
                                !.timeCost = @ + 1]
    ELSE IF Overshot(call, t)
         THEN [t.options EXCEPT !.memoryCost = @ + 1,
                                !.timeCost = call.startingOptions.timeCost]
         ELSE [t.options EXCEPT !.timeCost = @ + 1]

\* the series, working options and flags of the run of call are those of a
\* run measured alone: one sample per measured hash of its own that resolved,
\* each measured with the options its own previous sample led to
OwnContext(call) ==
    call.pc \in {"hash", "calibrated"}
    => LET t == call.timings
           n == Len(t)
       IN  /\ n = call.resolved - WarmUps
           /\ \A i \in 1..n : t[i].id = i
           /\ n >= 1 => t[1].options = call.startingOptions
           /\ \A i \in 1..(n - 1) : t[i + 1].options = NextFrom(call, t[i])
           /\ (call.pc = "hash" /\ n >= 1)
              => /\ call.opts = NextFrom(call, t[n])
                 /\ call.tname = "closestmatch"
                    => /\ call.data.lastOvershot = Overshot(call, t[n])
                       /\ ~call.data.isDone
           /\ (call.pc = "hash" /\ n = 0) => call.opts = call.startingOptions

\* C36: two runs that overlap in time on the same strategy have separate
\* contexts: each series holds exactly the samples of its own run, each run's
\* next parameters and flags follow from its own samples, and a step of one
\* run leaves the other run's series, flags and parameters as they were.
C36_SeparateContexts ==
    /\ [](\A c \in CallIds : OwnContext(calls[c]))
    /\ [][\A c, d \in CallIds :
            (c # d /\ calls'[c] # calls[c]) => calls'[d] = calls[d]]_vars

\* C36 witness: two ClosestMatch runs measuring at the same time, one with
\* its overshoot flag set and at the second memoryCost, the other with the
\* flag clear and at the second timeCost
C36_Witness ==
    /\ calls[1].pc = "hash" /\ calls[2].pc = "hash"
    /\ calls[1].tname = "closestmatch" /\ calls[2].tname = "closestmatch"
    /\ calls[1].data.lastOvershot /\ ~calls[2].data.lastOvershot
    /\ calls[1].opts.memoryCost = 2 /\ calls[1].opts.timeCost = 1
    /\ calls[2].opts.memoryCost = 1 /\ calls[2].opts.timeCost = 2
    /\ Len(calls[1].timings) = 1 /\ Len(calls[2].timings) = 1

\* C37: within one run no (memoryCost, timeCost) pair is measured twice: in
\* MaxMemoryMarch timeCost never decreases and memoryCost strictly increases
\* while timeCost stays the same; in ClosestMatch memoryCost never decreases
\* and timeCost strictly increases while memoryCost stays the same.
C37_NoPairMeasuredTwice ==
    \A c \in CallIds :
        LET t == calls[c].timings
            n == Len(t)
        IN  /\ \A i, j \in 1..n :
                  (i # j)
                  => \/ t[i].options.memoryCost # t[j].options.memoryCost
                     \/ t[i].options.timeCost # t[j].options.timeCost
            /\ calls[c].tname = "maxmemory"
               => \A i, j \in 1..n :
                     (i < j)
                     => /\ t[i].options.timeCost <= t[j].options.timeCost
                        /\ t[i].options.timeCost = t[j].options.timeCost
                           => t[i].options.memoryCost < t[j].options.memoryCost
            /\ calls[c].tname = "closestmatch"
               => \A i, j \in 1..n :
                     (i < j)
                     => /\ t[i].options.memoryCost <= t[j].options.memoryCost
                        /\ t[i].options.memoryCost = t[j].options.memoryCost
                           => t[i].options.timeCost < t[j].options.timeCost

\* C37 witness: a ClosestMatch run of five samples that came back to the
\* starting timeCost twice, at a higher memoryCost each time
C37_Witness ==
    \E c \in CallIds :
        /\ calls[c].tname = "closestmatch"
        /\ Len(calls[c].timings) = 5
        /\ calls[c].timings[3].options.timeCost = defaults.timeCost
        /\ calls[c].timings[5].options.timeCost = defaults.timeCost
        /\ calls[c].timings[3].options.memoryCost
              < calls[c].timings[5].options.memoryCost

\* the memory ceiling prepare computes from the machine:
\* min(floor(log2(total memory in KiB)), memoryCost limit max)
RamCeiling ==
    LET ram == FloorLog2(os.totalmem \div 1024)
    IN  IF ram < limits.memoryCost.max THEN ram ELSE limits.memoryCost.max

\* C38: every sample a run records, under either policy, has memoryCost at
\* most the memory ceiling computed in prepare.
C38_MemoryWithinRamCeiling ==
    \A c \in CallIds :
        \A t \in Range(calls[c].timings) :
            t.options.memoryCost <= RamCeiling

\* what does hold: the samples of a MaxMemoryMarch run stay within the
\* ceiling, those of a ClosestMatch run within the memoryCost limit only
C38_MaxMemoryMarchWithinRamCeiling ==
    \A c \in CallIds :
        \A t \in Range(calls[c].timings) :
            /\ calls[c].tname = "maxmemory"
               => t.options.memoryCost <= RamCeiling
            /\ t.options.memoryCost <= limits.memoryCost.max

\* C39: initialize(series) does not modify its argument: the series the run
\* returned keeps the same samples in measurement order after initialize and
\* after every select, fastest and slowest call, for both selection policies.
C39_InitializeKeepsArgument ==
    /\ [](phase # "new"
            => /\ calls[1].timings = series
               /\ \A i \in 1..Len(series) : series[i].id = i)
    /\ [][calls[1].pc = "calibrated"
            => calls'[1].timings = calls[1].timings]_vars

\* C39 witness: select answered on a series of three samples that is in
\* measurement order and not in the order the strategy ranks it
C39_Witness ==
    /\ phase # "new" /\ out.op = "select"
    /\ Len(series) = 3
    /\ calls[1].timings = series
    /\ sels[cur].sortedTimings # series
    /\ sels[cur].sortedTimings[1] = series[3]

\* the options a run starts from: the defaults with the clamped parallelism
Baseline == [defaults EXCEPT !.parallelism = ClampedParallelism]

\* C40: a run never mutates the shared defaults nor, after prepare, its
\* starting options: every run, the second like the first, makes its
\* warm-ups and its first sample with the defaults' memoryCost and timeCost,
\* and every ClosestMatch timeCost reset restores the defaults' timeCost.
C40_DefaultsAndBaselineKept ==
    /\ [](\A c \in CallIds :
            LET t == calls[c].timings
            IN  /\ calls[c].pc \in {"salt", "warmup", "hash", "calibrated"}
                   => calls[c].startingOptions = Baseline
                /\ calls[c].pc \in {"salt", "warmup"}
                   => calls[c].opts = Baseline
                /\ Len(t) >= 1 => t[1].options = Baseline
                /\ calls[c].tname = "closestmatch"
                   => \A i \in 1..(Len(t) - 1) :
                         t[i + 1].options.memoryCost # t[i].options.memoryCost
                         => t[i + 1].options.timeCost = defaults.timeCost)
    /\ [][defaults' = defaults]_vars

\* C40 witness: the first call has finished a calibration of two samples or
\* more, and the second call, with the same timing strategy, has measured its
\* first sample with the defaults' memoryCost and timeCost
C40_Witness ==
    /\ calls[1].pc = "done" /\ calls[1].hashes >= WarmUps + 2
    /\ calls[2].pc = "hash" /\ calls[2].tname = calls[1].tname
    /\ Len(calls[2].timings) = 1
    /\ calls[2].timings[1].options.memoryCost = defaults.memoryCost
    /\ calls[2].timings[1].options.timeCost = defaults.timeCost

====
